---- MODULE Spec2Model ----
(***************************************************************************)
(* Student Management System: the record-management layer                  *)
(* (models/student.py, models/subject.py, models/record.py,                *)
(* models/manager.py).                                                     *)
(*                                                                         *)
(* Text is a sequence of one-character strings.  A Python value that may   *)
(* be None is a sequence of length 0 (None) or 1 (the value).  A float     *)
(* grade is an integer count of tenths (50.5 is 505), so that str(float)   *)
(* and float(str) are computed digit by digit.                             *)
(***************************************************************************)
EXTENDS Integers, Sequences, FiniteSets, TLC

VARIABLES
    students,       \* StudentManager.students: list of Student
    subjects,       \* StudentManager.subjects: list of Subject
    records,        \* StudentManager.records: list of Record
    students_file,  \* content of students.txt (None: the file does not exist)
    subjects_file,  \* content of subjects.txt
    records_file,   \* content of records.txt
    lastCall,       \* history: the last manager call and its arguments
    ret,            \* history: the boolean the last call returned
    report,         \* history: what the last get_student_report returned
    marks,          \* history: per pair, the successful mark_attendance calls
    origin,         \* history: per pair, the call that created its record
    ncalls,         \* history: number of manager calls made
    rt              \* save_to_file / load_from_file applied to a given list

vars == <<students, subjects, records, students_file, subjects_file,
          records_file, lastCall, ret, report, marks, origin, ncalls, rt>>

managerVars == <<students, subjects, records, students_file, subjects_file,
                 records_file, lastCall, ret, report, marks, origin,
                 ncalls>>

-----------------------------------------------------------------------------
(* Optional values *)

None == <<>>

Some(x) == <<x>>

\* Python truthiness of an optional int: None and 0 are falsy.
Truthy(x) == x # None /\ x[1] # 0

-----------------------------------------------------------------------------
(* Text *)

NL == "\n"

Bar == "|"

\* The characters str.strip() removes that the model's texts can hold.
Whitespace == {" ", "\n", "\t"}

Digits == <<"0", "1", "2", "3", "4", "5", "6", "7", "8", "9">>

RECURSIVE LStrip(_)
LStrip(s) ==
    IF s # <<>> /\ Head(s) \in Whitespace THEN LStrip(Tail(s)) ELSE s

RECURSIVE RStrip(_)
RStrip(s) ==
    IF s # <<>> /\ s[Len(s)] \in Whitespace
    THEN RStrip(SubSeq(s, 1, Len(s) - 1))
    ELSE s

\* str.strip()
Strip(s) == RStrip(LStrip(s))

\* the positions of the character c in s, in increasing order
Positions(s, c) ==
    LET P == {i \in 1..Len(s) : s[i] = c}
    IN  [k \in 1..Cardinality(P) |->
            CHOOSE i \in P : Cardinality({j \in P : j < i}) = k - 1]

\* str.split(sep): the texts between the separators, always at least one
Split(s, sep) ==
    LET cut == Positions(s, sep)
        n == Len(cut)
    IN  [k \in 1..(n + 1) |->
            SubSeq(s, IF k = 1 THEN 1 ELSE cut[k - 1] + 1,
                      IF k = n + 1 THEN Len(s) ELSE cut[k] - 1)]

\* file.readlines(): the lines, each with its terminating "\n" when it has one
ReadLines(t) ==
    LET cut == Positions(t, NL)
        n == Len(cut)
        ended == [k \in 1..n |->
                     SubSeq(t, IF k = 1 THEN 1 ELSE cut[k - 1] + 1, cut[k])]
    IN  IF n = 0 THEN (IF t = <<>> THEN <<>> ELSE <<t>>)
        ELSE IF cut[n] < Len(t)
        THEN Append(ended, SubSeq(t, cut[n] + 1, Len(t)))
        ELSE ended

RECURSIVE NatToStr(_)
NatToStr(n) ==
    IF n < 10 THEN <<Digits[n + 1]>>
    ELSE NatToStr(n \div 10) \o <<Digits[(n % 10) + 1]>>

\* str(int)
IntToStr(n) == IF n < 0 THEN <<"-">> \o NatToStr(-n) ELSE NatToStr(n)

\* float('nan') among the floats counted in tenths: a value apart from every
\* grade of the model, of which no comparison holds
NaN == 99999

\* a < b and a <= b on floats: False when either side is nan
FloatLt(a, b) == a # NaN /\ b # NaN /\ a < b

FloatLe(a, b) == a # NaN /\ b # NaN /\ a <= b

\* str(float), the float counted in tenths: 505 is "50.5", 1000 is "100.0",
\* nan is "nan"
FloatToStr(t) ==
    LET a == IF t < 0 THEN -t ELSE t
    IN  IF t = NaN THEN <<"n", "a", "n">>
        ELSE (IF t < 0 THEN <<"-">> ELSE <<>>)
                \o NatToStr(a \div 10) \o <<".">>
                \o <<Digits[(a % 10) + 1]>>

IsDigit(c) == \E d \in 1..10 : Digits[d] = c

DigitVal(c) == (CHOOSE d \in 1..10 : Digits[d] = c) - 1

AllDigits(s) == s # <<>> /\ \A i \in 1..Len(s) : IsDigit(s[i])

RECURSIVE DigitsVal(_)
DigitsVal(s) ==
    IF s = <<>> THEN 0
    ELSE DigitsVal(SubSeq(s, 1, Len(s) - 1)) * 10 + DigitVal(s[Len(s)])

Unsigned(s) == IF s # <<>> /\ Head(s) \in {"+", "-"} THEN Tail(s) ELSE s

Signed(s, v) == IF s # <<>> /\ Head(s) = "-" THEN -v ELSE v

\* int(s) that takes a text that is no number for 0
ParseIntLenient(s) ==
    IF AllDigits(Unsigned(s))
    THEN [ok |-> TRUE, val |-> Signed(s, DigitsVal(Unsigned(s)))]
    ELSE [ok |-> TRUE, val |-> 0]

\* int(s) for a stripped s: an optional sign and decimal digits; anything
\* else raises ValueError (ok = FALSE).
ParseInt(s) ==
    IF AllDigits(Unsigned(s))
    THEN [ok |-> TRUE, val |-> Signed(s, DigitsVal(Unsigned(s)))]
    ELSE [ok |-> FALSE, val |-> 0]

\* float(s) for a stripped s, in tenths: "nan", or an optional sign, decimal
\* digits and at most one fractional digit (the texts of the model hold no
\* other form); anything else raises ValueError (ok = FALSE).
ParseFloat(s) ==
    LET p == Split(Unsigned(s), ".")
    IN  IF s = <<"n", "a", "n">> THEN [ok |-> TRUE, val |-> NaN]
        ELSE IF Len(p) = 1 /\ AllDigits(p[1])
        THEN [ok |-> TRUE, val |-> Signed(s, DigitsVal(p[1]) * 10)]
        ELSE IF Len(p) = 2 /\ AllDigits(p[1]) /\ Len(p[2]) <= 1
                           /\ (p[2] = <<>> \/ AllDigits(p[2]))
        THEN [ok |-> TRUE,
              val |-> Signed(s, DigitsVal(p[1]) * 10 + DigitsVal(p[2]))]
        ELSE [ok |-> FALSE, val |-> 0]

RECURSIVE Concat(_)
Concat(ss) == IF ss = <<>> THEN <<>> ELSE Head(ss) \o Concat(Tail(ss))

-----------------------------------------------------------------------------
(* models/student.py *)

Student(student_id, name, email, age) ==
    [student_id |-> student_id, name |-> name, email |-> email, age |-> age]

StudentHeader ==
    <<"#"," ","S","t","u","d","e","n","t"," ","I","D"," ","|"," ","N","a","m","e"," ","|",
      " ","E","m","a","i","l"," ","|"," ","A","g","e">>

\* age_str = str(student.age) if student.age else ''
StudentAgeStr(student) ==
    IF Truthy(student.age) THEN IntToStr(student.age[1]) ELSE <<>>

StudentLine(student) ==
    student.student_id \o <<Bar>> \o student.name \o <<Bar>> \o student.email
        \o <<Bar>> \o StudentAgeStr(student) \o <<NL>>

\* Student.save_to_file: the text written (the write is taken to succeed)
Student_save_to_file(list) ==
    Some(StudentHeader \o <<NL>> 
            \o Concat([i \in 1..Len(list) |-> StudentLine(list[i])]))

RECURSIVE StudentLoadLines(_, _)
StudentLoadLines(lines, acc) ==
    IF lines = <<>> THEN acc
    ELSE LET line == Strip(Head(lines))
             parts == Split(line, Bar)
             ageText == IF Len(parts) > 3 THEN Strip(parts[4]) ELSE <<>>
             age == ParseInt(ageText)
         IN  IF line = <<>> \/ Head(line) = "#"
             THEN StudentLoadLines(Tail(lines), acc)
             ELSE IF Len(parts) < 3
             THEN StudentLoadLines(Tail(lines), acc)
             ELSE IF ageText # <<>> /\ ~age.ok
             THEN acc   \* ValueError, caught by `except Exception`
             ELSE StudentLoadLines(Tail(lines),
                     Append(acc, Student(Strip(parts[1]), Strip(parts[2]),
                                         Strip(parts[3]),
                                         IF ageText # <<>> THEN Some(age.val)
                                         ELSE None)))

\* Student.load_from_file: FileNotFoundError gives the empty list
Student_load_from_file(file) ==
    IF file = None THEN <<>> ELSE StudentLoadLines(ReadLines(file[1]), <<>>)

-----------------------------------------------------------------------------
(* models/subject.py *)

\* Subject.__init__(subject_id, name, code, credits): positional order
Subject(subject_id, name, code, credits) ==
    [subject_id |-> subject_id, name |-> name, code |-> code,
     credits |-> credits]

SubjectHeader ==
    <<"#"," ","S","u","b","j","e","c","t"," ","I","D"," ","|"," ","C","o","d","e"," ","|",
      " ","N","a","m","e"," ","|"," ","C","r","e","d","i","t","s">>

\* credits_str = str(subject.credits) if subject.credits else ''
SubjectCreditsStr(subject) ==
    IF Truthy(subject.credits) THEN IntToStr(subject.credits[1]) ELSE <<>>

\* f"{subject.subject_id}|{subject.code}|{subject.name}|{credits_str}\n"
SubjectLine(subject) ==
    subject.subject_id \o <<Bar>> \o subject.code \o <<Bar>> \o subject.name
        \o <<Bar>> \o SubjectCreditsStr(subject) \o <<NL>>

\* Subject.save_to_file
Subject_save_to_file(list) ==
    Some(SubjectHeader \o <<NL>> 
            \o Concat([i \in 1..Len(list) |-> SubjectLine(list[i])]))

\* The loader's call Subject(subject_id, code, name, credits): column 2 is
\* read into `code`, column 3 into `name`, and both are then passed by
\* position to __init__(subject_id, name, code, credits).
SubjectFromColumns(subject_id, code, name, credits) ==
    Subject(subject_id, code, name, credits)

RECURSIVE SubjectLoadLines(_, _)
SubjectLoadLines(lines, acc) ==
    IF lines = <<>> THEN acc
    ELSE LET line == Strip(Head(lines))
             parts == Split(line, Bar)
             creditsText == IF Len(parts) > 3 THEN Strip(parts[4]) ELSE <<>>
             credits == ParseInt(creditsText)
         IN  IF line = <<>> \/ Head(line) = "#"
             THEN SubjectLoadLines(Tail(lines), acc)
             ELSE IF Len(parts) < 3
             THEN SubjectLoadLines(Tail(lines), acc)
             ELSE IF creditsText # <<>> /\ ~credits.ok
             THEN acc   \* ValueError, caught by `except Exception`
             ELSE SubjectLoadLines(Tail(lines),
                     Append(acc, SubjectFromColumns(
                                     Strip(parts[1]), Strip(parts[2]),
                                     Strip(parts[3]),
                                     IF creditsText # <<>>
                                     THEN Some(credits.val) ELSE None)))

\* Subject.load_from_file
Subject_load_from_file(file) ==
    IF file = None THEN <<>> ELSE SubjectLoadLines(ReadLines(file[1]), <<>>)

-----------------------------------------------------------------------------
(* models/record.py *)

Record(student_id, subject_id, grade, attendance, total_classes) ==
    [student_id |-> student_id, subject_id |-> subject_id, grade |-> grade,
     attendance |-> attendance, total_classes |-> total_classes]

RecordHeader ==
    <<"#"," ","S","t","u","d","e","n","t"," ","I","D"," ","|"," ","S","u","b","j","e","c",
      "t"," ","I","D"," ","|"," ","G","r","a","d","e"," ","|"," ","A","t","t","e","n","d",
      "a","n","c","e"," ","|"," ","T","o","t","a","l"," ","C","l","a","s","s","e","s">>

\* grade_str = str(record.grade) if record.grade is not None else ''
RecordGradeStr(record) ==
    IF record.grade # None THEN FloatToStr(record.grade[1]) ELSE <<>>

\* the test by truthiness, as for a student's age: str(x) if x else ''
RecordIntStrTruthy(x) == IF Truthy(x) THEN IntToStr(x[1]) ELSE <<>>

\* str(x) if x is not None else '', for attendance and total_classes
RecordIntStr(x) == IF x # None THEN IntToStr(x[1]) ELSE <<>>

RecordLine(record) ==
    record.student_id \o <<Bar>> \o record.subject_id \o <<Bar>>
        \o RecordGradeStr(record) \o <<Bar>>
        \o RecordIntStr(record.attendance) \o <<Bar>>
        \o RecordIntStr(record.total_classes) \o <<NL>>

\* Record.save_to_file
Record_save_to_file(list) ==
    Some(RecordHeader \o <<NL>> 
            \o Concat([i \in 1..Len(list) |-> RecordLine(list[i])]))

RECURSIVE RecordLoadLines(_, _)
RecordLoadLines(lines, acc) ==
    IF lines = <<>> THEN acc
    ELSE LET line == Strip(Head(lines))
             parts == Split(line, Bar)
             gradeText == IF Len(parts) > 2 THEN Strip(parts[3]) ELSE <<>>
             attText == IF Len(parts) > 3 THEN Strip(parts[4]) ELSE <<>>
             totalText == IF Len(parts) > 4 THEN Strip(parts[5]) ELSE <<>>
             grade == ParseFloat(gradeText)
             att == ParseInt(attText)
             total == ParseInt(totalText)
         IN  IF line = <<>> \/ Head(line) = "#"
             THEN RecordLoadLines(Tail(lines), acc)
             ELSE IF Len(parts) < 2
             THEN RecordLoadLines(Tail(lines), acc)
             ELSE IF \/ gradeText # <<>> /\ ~grade.ok
                     \/ attText # <<>> /\ ~att.ok
                     \/ totalText # <<>> /\ ~total.ok
             THEN acc   \* ValueError, caught by `except Exception`
             ELSE RecordLoadLines(Tail(lines),
                     Append(acc, Record(
                         Strip(parts[1]), Strip(parts[2]),
                         IF gradeText # <<>> THEN Some(grade.val) ELSE None,
                         IF attText # <<>> THEN Some(att.val) ELSE None,
                         IF totalText # <<>> THEN Some(total.val) ELSE None)))

\* Record.load_from_file
Record_load_from_file(file) ==
    IF file = None THEN <<>> ELSE RecordLoadLines(ReadLines(file[1]), <<>>)

-----------------------------------------------------------------------------
(* Bounds and the arguments the calls are made with *)

\* manager calls in one behaviour
MaxCalls == 5

StudentIds == { <<"s", "1">>, <<"s", "2">> }

SubjectIds == { <<"c", "1">>, <<"c", "2">> }

Ann == <<"A", "n", "n">>

Bo == <<"B", "o">>

Mail == <<"a", "@", "x">>

Math == <<"M", "a", "t", "h">>

M1 == <<"M", "1">>

P2 == <<"P", "2">>

\* <<name, email, age>>: an age, no age, the age 0
StudentProfiles ==
    { <<Ann, Mail, Some(20)>>, <<Bo, Mail, None>>, <<Bo, Mail, Some(0)>> }

\* <<name, code, credits>>
SubjectProfiles ==
    { <<Math, M1, Some(3)>>, <<Math, P2, None>>, <<Math, P2, Some(0)>> }

\* grades in tenths: -0.1, 0.0, 50.5, 100.0, 100.1
Grades == { -1, 0, 505, 1000, 1001 }

Totals == { None, Some(0), Some(3) }

Pairs == StudentIds \X SubjectIds

Call(op, student_id, subject_id, name, email, code, num, attended, total) ==
    [op |-> op, student_id |-> student_id, subject_id |-> subject_id,
     name |-> name, email |-> email, code |-> code, num |-> num,
     attended |-> attended, total_classes |-> total]

NoCall == Call("init", <<>>, <<>>, <<>>, <<>>, <<>>, None, FALSE, None)

-----------------------------------------------------------------------------
(* models/manager.py *)

FirstIndex(S) == IF S = {} THEN 0 ELSE CHOOSE i \in S : \A j \in S : i <= j

\* index of the first student with that id, 0 when there is none
StudentIndex(list, student_id) ==
    FirstIndex({i \in 1..Len(list) : list[i].student_id = student_id})

\* get_student comparing the wrong attribute: student.name == student_id
get_student_by_name(list, student_id) ==
    LET i == FirstIndex({k \in 1..Len(list) : list[k].name = student_id})
    IN  IF i = 0 THEN None ELSE Some(list[i])

\* StudentManager.get_student
get_student(list, student_id) ==
    IF StudentIndex(list, student_id) = 0 THEN None
    ELSE Some(list[StudentIndex(list, student_id)])

SubjectIndex(list, subject_id) ==
    FirstIndex({i \in 1..Len(list) : list[i].subject_id = subject_id})

\* StudentManager.get_subject
get_subject(list, subject_id) ==
    IF SubjectIndex(list, subject_id) = 0 THEN None
    ELSE Some(list[SubjectIndex(list, subject_id)])

\* index of the first record of the pair, 0 when there is none
RecordIndex(list, student_id, subject_id) ==
    FirstIndex({i \in 1..Len(list) : /\ list[i].student_id = student_id
                                     /\ list[i].subject_id = subject_id})

\* StudentManager.get_record
get_record(list, student_id, subject_id) ==
    IF RecordIndex(list, student_id, subject_id) = 0 THEN None
    ELSE Some(list[RecordIndex(list, student_id, subject_id)])

\* get_student_records without the filter on student_id
get_student_records_unfiltered(list, student_id) == list

\* StudentManager.get_student_records
get_student_records(list, student_id) ==
    SelectSeq(list, LAMBDA r : r.student_id = student_id)

\* save_all rewriting records.txt alone
save_records_only(st, su, re) ==
    /\ UNCHANGED <<students_file, subjects_file>>
    /\ records_file' = Record_save_to_file(re)

\* StudentManager.save_all, writing the collections st, su, re
save_all(st, su, re) ==
    /\ students_file' = Student_save_to_file(st)
    /\ subjects_file' = Subject_save_to_file(su)
    /\ records_file' = Record_save_to_file(re)

NoSave == UNCHANGED <<students_file, subjects_file, records_file>>

Returns(call, value) ==
    /\ lastCall' = call
    /\ ret' = value
    /\ report' = None
    /\ ncalls' = ncalls + 1

\* StudentManager.add_student
add_student(student_id, name, email, age) ==
    /\ ncalls < MaxCalls
    /\ IF get_student(students, student_id) # None
       THEN /\ UNCHANGED students
            /\ NoSave
       ELSE /\ students' = Append(students,
                                  Student(student_id, name, email, age))
            /\ save_all(students', subjects, records)
    /\ Returns(Call("add_student", student_id, <<>>, name, email, <<>>, age,
                    FALSE, None),
               get_student(students, student_id) = None)
    /\ UNCHANGED <<subjects, records, marks, origin, rt>>

\* StudentManager.add_subject
add_subject(subject_id, name, code, credits) ==
    /\ ncalls < MaxCalls
    /\ IF get_subject(subjects, subject_id) # None
       THEN /\ UNCHANGED subjects
            /\ NoSave
       ELSE /\ subjects' = Append(subjects,
                                  Subject(subject_id, name, code, credits))
            /\ save_all(students, subjects', records)
    /\ Returns(Call("add_subject", <<>>, subject_id, name, <<>>, code,
                    credits, FALSE, None),
               get_subject(subjects, subject_id) = None)
    /\ UNCHANGED <<students, records, marks, origin, rt>>

\* enroll_student without the `already enrolled` check
EnrollOkNoRecordCheck(student_id, subject_id) ==
    /\ get_student(students, student_id) # None
    /\ get_subject(subjects, subject_id) # None

\* enroll_student without the check that the subject exists
EnrollOkNoSubjectCheck(student_id, subject_id) ==
    /\ get_student(students, student_id) # None
    /\ get_record(records, student_id, subject_id) = None

\* the guards of enroll_student, in the order of the code
EnrollOk(student_id, subject_id) ==
    /\ get_student(students, student_id) # None
    /\ get_subject(subjects, subject_id) # None
    /\ get_record(records, student_id, subject_id) = None

\* StudentManager.enroll_student
enroll_student(student_id, subject_id) ==
    /\ ncalls < MaxCalls
    /\ IF EnrollOk(student_id, subject_id)
       THEN /\ records' = Append(records,
                           Record(student_id, subject_id, None, None, None))
            /\ save_all(students, subjects, records')
            /\ origin' = [origin EXCEPT ![<<student_id, subject_id>>] =
                              "enroll_student"]
       ELSE /\ UNCHANGED <<records, origin>>
            /\ NoSave
    /\ Returns(Call("enroll_student", student_id, subject_id, <<>>, <<>>,
                    <<>>, None, FALSE, None),
               EnrollOk(student_id, subject_id))
    /\ UNCHANGED <<students, subjects, marks, rt>>

\* history: the pair's record is created by `op` when it has none yet
Created(student_id, subject_id, op) ==
    IF RecordIndex(records, student_id, subject_id) = 0
    THEN [origin EXCEPT ![<<student_id, subject_id>>] = op]
    ELSE origin

\* lowest and highest grade add_grade accepts
MinGrade == 0

MaxGrade == 100

\* the range check with the bounds excluded: `grade <= 0 or grade >= 100`
GradeRejectedAtBounds(grade) ==
    FloatLe(grade, MinGrade * 10) \/ FloatLe(MaxGrade * 10, grade)

\* `grade < 0 or grade > 100`, the grade in tenths
GradeRejected(grade) ==
    FloatLt(grade, MinGrade * 10) \/ FloatLt(MaxGrade * 10, grade)

\* the check of add_grade on the student alone
GradeNoTargetStudentOnly(student_id, subject_id) ==
    /\ get_record(records, student_id, subject_id) = None
    /\ get_student(students, student_id) = None

\* add_grade finds no record and the student or the subject is missing
GradeNoTarget(student_id, subject_id) ==
    /\ get_record(records, student_id, subject_id) = None
    /\ \/ get_student(students, student_id) = None
       \/ get_subject(subjects, subject_id) = None

\* add_grade appending a record whether or not the pair has one
GradeUpdateAlwaysAppend(list, student_id, subject_id, grade) ==
    Append(list, Record(student_id, subject_id, Some(grade), None, None))

\* the records after add_grade's update: a new record carrying the grade,
\* or the grade of the record found overwritten
GradeUpdate(list, student_id, subject_id, grade) ==
    IF RecordIndex(list, student_id, subject_id) = 0
    THEN Append(list, Record(student_id, subject_id, Some(grade), None, None))
    ELSE [list EXCEPT ![RecordIndex(list, student_id, subject_id)].grade =
                          Some(grade)]

\* StudentManager.add_grade
add_grade(student_id, subject_id, grade) ==
    /\ ncalls < MaxCalls
    /\ IF GradeRejected(grade) \/ GradeNoTarget(student_id, subject_id)
       THEN /\ UNCHANGED <<records, origin>>
            /\ NoSave
       ELSE /\ records' = GradeUpdate(records, student_id, subject_id, grade)
            /\ save_all(students, subjects, records')
            /\ origin' = Created(student_id, subject_id, "add_grade")
    /\ Returns(Call("add_grade", student_id, subject_id, <<>>, <<>>, <<>>,
                    Some(grade), FALSE, None),
               ~(GradeRejected(grade) \/ GradeNoTarget(student_id, subject_id)))
    /\ UNCHANGED <<students, subjects, marks, rt>>

Max(a, b) == IF a >= b THEN a ELSE b

\* manager.py 195-199: the explicit total, else the record's, else 1
MarkTotalBefore(record, total_classes) ==
    IF total_classes # None THEN total_classes
    ELSE IF record.total_classes # None THEN record.total_classes
    ELSE Some(1)

\* the attended branch without the increment: attendance = 1 every time
MarkAttendanceNoIncrement(record, attended) ==
    IF attended THEN Some(1)
    ELSE IF record.attendance = None THEN Some(0)
         ELSE record.attendance

\* the absent branch without its test: attendance = 0 on every absence
MarkAttendanceResetOnAbsent(record, attended) ==
    IF attended
    THEN IF record.attendance = None THEN Some(1)
         ELSE Some(record.attendance[1] + 1)
    ELSE Some(0)

\* manager.py 201-208
MarkAttendance(record, attended) ==
    IF attended
    THEN IF record.attendance = None THEN Some(1)
         ELSE Some(record.attendance[1] + 1)
    ELSE IF record.attendance = None THEN Some(0)
         ELSE record.attendance

\* the final step without the max: the total as it was before counting
MarkTotalAfterNoMax(record, attended, total_classes) ==
    MarkTotalBefore(record, total_classes)

\* the final step without the explicit total re-applied: always the max
MarkTotalAfterAlwaysMax(record, attended, total_classes) ==
    Some(IF MarkTotalBefore(record, total_classes)[1]
              >= MarkAttendance(record, attended)[1]
         THEN MarkTotalBefore(record, total_classes)[1]
         ELSE MarkAttendance(record, attended)[1])

\* manager.py 210-213
MarkTotalAfter(record, attended, total_classes) ==
    IF total_classes # None THEN total_classes
    ELSE Some(Max(MarkTotalBefore(record, total_classes)[1],
                  MarkAttendance(record, attended)[1]))

\* the update writing the counters into a new record of the pair
MarkUpdateNewRecord(record, attended, total_classes) ==
    [record EXCEPT !.grade = None,
                   !.attendance = MarkAttendance(record, attended),
                   !.total_classes =
                       MarkTotalAfter(record, attended, total_classes)]

\* the record after mark_attendance's update policy
MarkUpdate(record, attended, total_classes) ==
    [record EXCEPT !.attendance = MarkAttendance(record, attended),
                   !.total_classes =
                       MarkTotalAfter(record, attended, total_classes)]

\* the check of mark_attendance on the student alone
MarkNoTargetStudentOnly(student_id, subject_id) ==
    /\ get_record(records, student_id, subject_id) = None
    /\ get_student(students, student_id) = None

\* mark_attendance finds no record and the student or the subject is missing
MarkNoTarget(student_id, subject_id) ==
    /\ get_record(records, student_id, subject_id) = None
    /\ \/ get_student(students, student_id) = None
       \/ get_subject(subjects, subject_id) = None

\* mark_attendance without the lookup: a new record on every call
MarkTargetAlwaysNew(list, student_id, subject_id) ==
    Append(list, Record(student_id, subject_id, None, None, None))

\* the records with a record of the pair: the list itself, or the list with
\* a new Record(student_id, subject_id) appended
MarkTarget(list, student_id, subject_id) ==
    IF RecordIndex(list, student_id, subject_id) = 0
    THEN Append(list, Record(student_id, subject_id, None, None, None))
    ELSE list

\* mark_attendance rebuilding the list from the record it updated
MarkRecordsOnlyTarget(list, student_id, subject_id, attended, total_classes) ==
    LET base == MarkTarget(list, student_id, subject_id)
        i == RecordIndex(base, student_id, subject_id)
    IN  <<MarkUpdate(base[i], attended, total_classes)>>

\* the records after a successful mark_attendance
MarkRecords(list, student_id, subject_id, attended, total_classes) ==
    LET base == MarkTarget(list, student_id, subject_id)
        i == RecordIndex(base, student_id, subject_id)
    IN  [base EXCEPT ![i] = MarkUpdate(base[i], attended, total_classes)]

\* StudentManager.mark_attendance
mark_attendance(student_id, subject_id, attended, total_classes) ==
    /\ ncalls < MaxCalls
    /\ IF MarkNoTarget(student_id, subject_id)
       THEN /\ UNCHANGED <<records, marks, origin>>
            /\ NoSave
       ELSE /\ records' = MarkRecords(records, student_id, subject_id,
                                      attended, total_classes)
            /\ save_all(students, subjects, records')
            /\ marks' = [marks EXCEPT ![<<student_id, subject_id>>] =
                            Append(@, [attended |-> attended,
                                       total_classes |-> total_classes])]
            /\ origin' = Created(student_id, subject_id, "mark_attendance")
    /\ Returns(Call("mark_attendance", student_id, subject_id, <<>>, <<>>,
                    <<>>, None, attended, total_classes),
               ~MarkNoTarget(student_id, subject_id))
    /\ UNCHANGED <<students, subjects, rt>>

\* the entry with the subject looked up under the record's student_id
ReportEntryByStudentId(record) ==
    [subject |-> get_subject(subjects, record.student_id), record |-> record]

\* one entry of report['records']
ReportEntry(record) ==
    [subject |-> get_subject(subjects, record.subject_id), record |-> record]

\* what get_student_report returns
StudentReport(student_id) ==
    IF get_student(students, student_id) = None THEN None
    ELSE Some([student |-> get_student(students, student_id)[1],
               records |->
                   [i \in 1..Len(get_student_records(records, student_id)) |->
                       ReportEntry(
                           get_student_records(records, student_id)[i])]])

\* StudentManager.get_student_report
get_student_report(student_id) ==
    /\ ncalls < MaxCalls
    /\ lastCall' = Call("get_student_report", student_id, <<>>, <<>>, <<>>,
                        <<>>, None, FALSE, None)
    /\ report' = StudentReport(student_id)
    /\ ret' = FALSE
    /\ ncalls' = ncalls + 1
    /\ UNCHANGED <<students, subjects, records, students_file, subjects_file,
                   records_file, marks, origin, rt>>

-----------------------------------------------------------------------------
(* The manager, from an empty data directory *)

RtIdle ==
    [pc |-> "idle", kind |-> "none", input |-> <<>>, file |-> None,
     output |-> <<>>]

Init ==
    /\ students = <<>>
    /\ subjects = <<>>
    /\ records = <<>>
    /\ students_file = None
    /\ subjects_file = None
    /\ records_file = None
    /\ lastCall = NoCall
    /\ ret = FALSE
    /\ report = None
    /\ marks = [p \in Pairs |-> <<>>]
    /\ origin = [p \in Pairs |-> "none"]
    /\ ncalls = 0
    /\ rt = RtIdle

\* every call the manager offers, with arguments from the given sets:
\* student profiles <<name, email, age>>, subject profiles
\* <<name, code, credits>>, grades and explicit totals
Calls(studentArgs, subjectArgs, grades, totals) ==
    \/ \E s \in StudentIds, p \in studentArgs :
           add_student(s, p[1], p[2], p[3])
    \/ \E c \in SubjectIds, p \in subjectArgs :
           add_subject(c, p[1], p[2], p[3])
    \/ \E s \in StudentIds, c \in SubjectIds : enroll_student(s, c)
    \/ \E s \in StudentIds, c \in SubjectIds, g \in grades :
           add_grade(s, c, g)
    \/ \E s \in StudentIds, c \in SubjectIds, at \in BOOLEAN, t \in totals :
           mark_attendance(s, c, at, t)
    \/ \E s \in StudentIds : get_student_report(s)

\* Spec: one profile per student and subject, every grade and total
Next == Calls({<<Ann, Mail, Some(20)>>}, {<<Math, M1, Some(3)>>},
              Grades, Totals)

Spec == Init /\ [][Next]_vars

\* SpecAdd: several student and subject profiles, one grade, no explicit total
NextAdd == Calls(StudentProfiles, SubjectProfiles, {505}, {None})

SpecAdd == Init /\ [][NextAdd]_vars

\* SpecNaN: the grades float('nan'), 0.0 and 100.1, no explicit total
NextNaN == Calls({<<Ann, Mail, Some(20)>>}, {<<Math, M1, Some(3)>>},
                 {NaN, 0, 1001}, {None})

SpecNaN == Init /\ [][NextNaN]_vars

-----------------------------------------------------------------------------
(* save_to_file followed by load_from_file, on a given list *)

\* entities in the list saved
MaxRtLen == 2

\* ids as the manager takes them (it checks nothing about their text):
\* plain, with the delimiter, starting a comment line, with leading
\* whitespace, empty
RtStudentIds ==
    { <<"s", "1">>, <<"a", "|", "b">>, <<"#", "x">>, <<" ", "y">>, <<>> }

\* plain, with a line break, starting with '#'
RtSubjectIds == { <<"c", "1">>, <<"c", "\n", "d">>, <<"#", "c">> }

\* <<grade, attendance, total_classes>>
RtRecordValues ==
    { <<None, None, None>>, <<Some(0), Some(0), Some(0)>>,
      <<Some(505), Some(2), Some(3)>>, <<Some(1000), Some(1), None>> }

RtRecords ==
    { Record(s, c, v[1], v[2], v[3]) :
          s \in RtStudentIds, c \in RtSubjectIds, v \in RtRecordValues }

RtStudents ==
    { Student(s, p[1], p[2], p[3]) : s \in RtStudentIds, p \in StudentProfiles }

RtSubjects ==
    { Subject(c, p[1], p[2], p[3]) : c \in RtSubjectIds, p \in SubjectProfiles }

RtEntities(kind) ==
    CASE kind = "student" -> RtStudents
      [] kind = "subject" -> RtSubjects
      [] kind = "record" -> RtRecords

\* the sequences over S of length at most n
RECURSIVE SeqsUpTo(_, _)
SeqsUpTo(S, n) ==
    IF n = 0 THEN { <<>> }
    ELSE SeqsUpTo(S, n - 1)
            \cup { Append(q, x) : q \in SeqsUpTo(S, n - 1), x \in S }

RtSaveToFile(kind, list) ==
    CASE kind = "student" -> Student_save_to_file(list)
      [] kind = "subject" -> Subject_save_to_file(list)
      [] kind = "record" -> Record_save_to_file(list)

RtLoadFromFile(kind, file) ==
    CASE kind = "student" -> Student_load_from_file(file)
      [] kind = "subject" -> Subject_load_from_file(file)
      [] kind = "record" -> Record_load_from_file(file)

InitRT ==
    /\ students = <<>>
    /\ subjects = <<>>
    /\ records = <<>>
    /\ students_file = None
    /\ subjects_file = None
    /\ records_file = None
    /\ lastCall = NoCall
    /\ ret = FALSE
    /\ report = None
    /\ marks = [p \in Pairs |-> <<>>]
    /\ origin = [p \in Pairs |-> "none"]
    /\ ncalls = 0
    /\ \E kind \in {"student", "subject", "record"} :
         \E list \in SeqsUpTo(RtEntities(kind), MaxRtLen) :
           rt = [pc |-> "save", kind |-> kind, input |-> list, file |-> None,
                 output |-> <<>>]

\* <Entity>.save_to_file(list, filepath)
RtSave ==
    /\ rt.pc = "save"
    /\ rt' = [rt EXCEPT !.pc = "load",
                        !.file = RtSaveToFile(rt.kind, rt.input)]
    /\ UNCHANGED managerVars

\* <Entity>.load_from_file(filepath)
RtLoad ==
    /\ rt.pc = "load"
    /\ rt' = [rt EXCEPT !.pc = "done",
                        !.output = RtLoadFromFile(rt.kind, rt.file)]
    /\ UNCHANGED managerVars

NextRT == RtSave \/ RtLoad

SpecRT == InitRT /\ [][NextRT]_vars

-----------------------------------------------------------------------------
(* The manager, constructed on a data directory that holds files *)

\* the lists whose save_to_file output the directory holds: two students,
\* one subject and three records, the last of a subject that subjects.txt
\* does not hold
DataDir ==
    [students |-> <<Student(<<"s", "1">>, Ann, Mail, Some(20)),
                    Student(<<"s", "2">>, Bo, Mail, None)>>,
     subjects |-> <<Subject(<<"c", "1">>, Math, M1, Some(3))>>,
     records |-> <<Record(<<"s", "1">>, <<"c", "1">>, Some(505), None, None),
                   Record(<<"s", "2">>, <<"c", "1">>, None, Some(1), Some(1)),
                   Record(<<"s", "1">>, <<"c", "2">>, None, None, None)>>]

\* StudentManager.__init__: the three collections loaded from the files
InitLoaded ==
    /\ students_file = Student_save_to_file(DataDir.students)
    /\ subjects_file = Subject_save_to_file(DataDir.subjects)
    /\ records_file = Record_save_to_file(DataDir.records)
    /\ students = Student_load_from_file(students_file)
    /\ subjects = Subject_load_from_file(subjects_file)
    /\ records = Record_load_from_file(records_file)
    /\ lastCall = NoCall
    /\ ret = FALSE
    /\ report = None
    /\ marks = [p \in Pairs |-> <<>>]
    /\ origin = [p \in Pairs |-> "none"]
    /\ ncalls = 0
    /\ rt = RtIdle

NextLoaded == Calls({<<Ann, Mail, Some(20)>>}, {<<Math, M1, Some(3)>>},
                    {505}, {None})

SpecLoaded == InitLoaded /\ [][NextLoaded]_vars

-----------------------------------------------------------------------------
(* save_all as three writes, with a crash between them.  Here rt follows the
   call under way: rt.pc is "idle" between calls, "students", "subjects" or
   "records" when that file is the next to be written, "crashed" once the
   process has died; rt.input holds the three files as they were when the
   call began. *)

Files == <<students_file, subjects_file, records_file>>

\* the three files as save_all writes them for the collections in memory
FilesOfMemory ==
    <<Student_save_to_file(students), Subject_save_to_file(subjects),
      Record_save_to_file(records)>>

\* a mutating call has changed the collections to st, su, re and calls
\* save_all
BeginSave(call, st, su, re) ==
    /\ rt.pc = "idle"
    /\ ncalls < MaxCalls
    /\ students' = st
    /\ subjects' = su
    /\ records' = re
    /\ lastCall' = call
    /\ ret' = FALSE
    /\ report' = None
    /\ rt' = [pc |-> "students", kind |-> "save_all", input |-> Files,
              file |-> None, output |-> <<>>]
    /\ UNCHANGED <<students_file, subjects_file, records_file, ncalls>>

\* add_student up to its call of save_all
begin_add_student(student_id, name, email, age) ==
    /\ get_student(students, student_id) = None
    /\ BeginSave(Call("add_student", student_id, <<>>, name, email, <<>>,
                      age, FALSE, None),
                 Append(students, Student(student_id, name, email, age)),
                 subjects, records)
    /\ UNCHANGED <<marks, origin>>

\* add_subject up to its call of save_all
begin_add_subject(subject_id, name, code, credits) ==
    /\ get_subject(subjects, subject_id) = None
    /\ BeginSave(Call("add_subject", <<>>, subject_id, name, <<>>, code,
                      credits, FALSE, None),
                 students,
                 Append(subjects, Subject(subject_id, name, code, credits)),
                 records)
    /\ UNCHANGED <<marks, origin>>

\* enroll_student up to its call of save_all
begin_enroll_student(student_id, subject_id) ==
    /\ EnrollOk(student_id, subject_id)
    /\ BeginSave(Call("enroll_student", student_id, subject_id, <<>>, <<>>,
                      <<>>, None, FALSE, None),
                 students, subjects,
                 Append(records,
                        Record(student_id, subject_id, None, None, None)))
    /\ origin' = [origin EXCEPT ![<<student_id, subject_id>>] =
                      "enroll_student"]
    /\ UNCHANGED marks

\* add_grade up to its call of save_all
begin_add_grade(student_id, subject_id, grade) ==
    /\ ~(GradeRejected(grade) \/ GradeNoTarget(student_id, subject_id))
    /\ BeginSave(Call("add_grade", student_id, subject_id, <<>>, <<>>, <<>>,
                      Some(grade), FALSE, None),
                 students, subjects,
                 GradeUpdate(records, student_id, subject_id, grade))
    /\ origin' = Created(student_id, subject_id, "add_grade")
    /\ UNCHANGED marks

\* mark_attendance up to its call of save_all
begin_mark_attendance(student_id, subject_id, attended, total_classes) ==
    /\ ~MarkNoTarget(student_id, subject_id)
    /\ BeginSave(Call("mark_attendance", student_id, subject_id, <<>>, <<>>,
                      <<>>, None, attended, total_classes),
                 students, subjects,
                 MarkRecords(records, student_id, subject_id, attended,
                             total_classes))
    /\ marks' = [marks EXCEPT ![<<student_id, subject_id>>] =
                    Append(@, [attended |-> attended,
                               total_classes |-> total_classes])]
    /\ origin' = Created(student_id, subject_id, "mark_attendance")

\* save_all: Student.save_to_file(self.students, self.students_file)
save_students ==
    /\ rt.pc = "students"
    /\ students_file' = Student_save_to_file(students)
    /\ rt' = [rt EXCEPT !.pc = "subjects"]
    /\ UNCHANGED <<students, subjects, records, subjects_file, records_file,
                   lastCall, ret, report, marks, origin, ncalls>>

\* save_all leaving subjects.txt as it is
save_subjects_skipped ==
    /\ rt.pc = "subjects"
    /\ rt' = [rt EXCEPT !.pc = "records"]
    /\ UNCHANGED <<students, subjects, records, students_file, subjects_file,
                   records_file, lastCall, ret, report, marks, origin,
                   ncalls>>

\* save_all: Subject.save_to_file(self.subjects, self.subjects_file)
save_subjects ==
    /\ rt.pc = "subjects"
    /\ subjects_file' = Subject_save_to_file(subjects)
    /\ rt' = [rt EXCEPT !.pc = "records"]
    /\ UNCHANGED <<students, subjects, records, students_file, records_file,
                   lastCall, ret, report, marks, origin, ncalls>>

\* save_all: Record.save_to_file(self.records, self.records_file), after
\* which the call returns True
save_records ==
    /\ rt.pc = "records"
    /\ records_file' = Record_save_to_file(records)
    /\ rt' = [rt EXCEPT !.pc = "idle"]
    /\ ret' = TRUE
    /\ ncalls' = ncalls + 1
    /\ UNCHANGED <<students, subjects, records, students_file, subjects_file,
                   lastCall, report, marks, origin>>

\* the process dies between two of the writes
Crash ==
    /\ rt.pc \in {"subjects", "records"}
    /\ rt' = [rt EXCEPT !.pc = "crashed"]
    /\ UNCHANGED managerVars

NextCrash ==
    \/ \E s \in StudentIds : begin_add_student(s, Ann, Mail, Some(20))
    \/ \E c \in SubjectIds : begin_add_subject(c, Math, M1, Some(3))
    \/ \E s \in StudentIds, c \in SubjectIds : begin_enroll_student(s, c)
    \/ \E s \in StudentIds, c \in SubjectIds : begin_add_grade(s, c, 505)
    \/ \E s \in StudentIds, c \in SubjectIds, at \in BOOLEAN :
           begin_mark_attendance(s, c, at, None)
    \/ save_students
    \/ save_subjects
    \/ save_records
    \/ Crash

SpecCrash == Init /\ [][NextCrash]_vars

-----------------------------------------------------------------------------
(* load_from_file on a file of given lines *)

\* lines in the file read
MaxLines == 3

\* the columns joined by '|'
RECURSIVE JoinBar(_)
JoinBar(cols) ==
    IF cols = <<>> THEN <<>>
    ELSE IF Len(cols) = 1 THEN cols[1]
    ELSE cols[1] \o <<Bar>> \o JoinBar(Tail(cols))

\* a line of a data file: its text, what the loader does with it ("valid":
\* an entity is built from it, "bad": a numeric column is not a number,
\* "skipped": blank, comment or too few columns) and the entity of a valid
\* line
FileLine(text, class, entity) ==
    [text |-> text, class |-> class, entity |-> entity]

NoEntity == <<>>

BlankLine == FileLine(<<" ", " ">>, "skipped", NoEntity)

\* a comment line, its text otherwise that of a line with a bad column
CommentLine ==
    FileLine(<<"#">> \o JoinBar(<<M1, P2, Ann, <<"x">>, <<"y">>>>),
             "skipped", NoEntity)

StudentFileLines ==
    { FileLine(JoinBar(<<<<"s", "1">>, Ann, Mail, <<"2", "0">>>>), "valid",
               Student(<<"s", "1">>, Ann, Mail, Some(20))),
      FileLine(JoinBar(<<<<"s", "2">>, Bo, Mail>>), "valid",
               Student(<<"s", "2">>, Bo, Mail, None)),
      FileLine(JoinBar(<<<<"s", "1">>, Ann, Mail, <<"x">>>>), "bad",
               NoEntity),
      FileLine(JoinBar(<<<<"s", "1">>, Ann>>), "skipped", NoEntity),
      BlankLine, CommentLine }

SubjectFileLines ==
    { FileLine(JoinBar(<<<<"c", "1">>, M1, Math, <<"3">>>>), "valid",
               SubjectFromColumns(<<"c", "1">>, M1, Math, Some(3))),
      FileLine(JoinBar(<<<<"c", "2">>, P2, Math, <<>>>>), "valid",
               SubjectFromColumns(<<"c", "2">>, P2, Math, None)),
      FileLine(JoinBar(<<<<"c", "1">>, M1, Math, <<"3", "x">>>>), "bad",
               NoEntity),
      FileLine(JoinBar(<<<<"c", "1">>, M1>>), "skipped", NoEntity),
      BlankLine, CommentLine }

RecordFileLines ==
    { FileLine(JoinBar(<<<<"s", "1">>, <<"c", "1">>, <<"5", "0", ".", "5">>,
                         <<"2">>, <<"3">>>>), "valid",
               Record(<<"s", "1">>, <<"c", "1">>, Some(505), Some(2),
                      Some(3))),
      FileLine(JoinBar(<<<<"s", "2">>, <<"c", "1">>>>), "valid",
               Record(<<"s", "2">>, <<"c", "1">>, None, None, None)),
      FileLine(JoinBar(<<<<"s", "1">>, <<"c", "1">>, <<"x">>>>), "bad",
               NoEntity),
      FileLine(JoinBar(<<<<"s", "1">>, <<"c", "1">>, <<>>, <<"y">>>>), "bad",
               NoEntity),
      FileLine(JoinBar(<<<<"s", "1">>, <<"c", "1">>, <<>>, <<"1">>,
                         <<"1", ".", "5">>>>), "bad", NoEntity),
      FileLine(<<"s", "1">>, "skipped", NoEntity),
      BlankLine, CommentLine }

FileLines(kind) ==
    CASE kind = "student" -> StudentFileLines
      [] kind = "subject" -> SubjectFileLines
      [] kind = "record" -> RecordFileLines

\* the file holding the lines, each ended by a line break
FileOfLines(lines) ==
    Concat([i \in 1..Len(lines) |-> lines[i].text \o <<NL>>])

\* a file of at most MaxLines lines is about to be loaded
InitLoad ==
    /\ students = <<>>
    /\ subjects = <<>>
    /\ records = <<>>
    /\ students_file = None
    /\ subjects_file = None
    /\ records_file = None
    /\ lastCall = NoCall
    /\ ret = FALSE
    /\ report = None
    /\ marks = [p \in Pairs |-> <<>>]
    /\ origin = [p \in Pairs |-> "none"]
    /\ ncalls = 0
    /\ \E kind \in {"student", "subject", "record"} :
         \E lines \in SeqsUpTo(FileLines(kind), MaxLines) :
           rt = [pc |-> "load", kind |-> kind, input |-> lines,
                 file |-> Some(FileOfLines(lines)), output |-> <<>>]

NextLoad == RtLoad

SpecLoad == InitLoad /\ [][NextLoad]_vars

-----------------------------------------------------------------------------
(* Properties *)

HasStudent(list, student_id) ==
    \E i \in 1..Len(list) : list[i].student_id = student_id

HasSubject(list, subject_id) ==
    \E i \in 1..Len(list) : list[i].subject_id = subject_id

\* the positions of the records of the pair
RecordsOf(list, student_id, subject_id) ==
    {i \in 1..Len(list) : /\ list[i].student_id = student_id
                          /\ list[i].subject_id = subject_id}

\* the record of a pair that has exactly one
TheRecord(list, student_id, subject_id) ==
    list[CHOOSE i \in RecordsOf(list, student_id, subject_id) : TRUE]

\* the step is a call of `op`
Calling(op) == lastCall'.op = op

\* C1: add_student with a student_id that is already present returns False
\* and leaves students, subjects and records exactly as they were.
C1_DuplicateStudentRejected ==
    [][Calling("add_student") /\ HasStudent(students, lastCall'.student_id)
         => /\ ret' = FALSE
            /\ students' = students
            /\ subjects' = subjects
            /\ records' = records]_vars

\* a rejected add_student whose name and age differ from the stored ones,
\* with a subject and a record in the store
C1_Witness ==
    /\ lastCall.op = "add_student"
    /\ ret = FALSE
    /\ \E i \in 1..Len(students) :
         /\ students[i].student_id = lastCall.student_id
         /\ students[i].name # lastCall.name
         /\ students[i].age # lastCall.num
    /\ subjects # <<>>
    /\ records # <<>>

\* the entry `marks` keeps of a successful mark_attendance call
MarkCall(attended, total_classes) ==
    [attended |-> attended, total_classes |-> total_classes]

\* the pair the step's call is made for
CallPair == <<lastCall'.student_id, lastCall'.subject_id>>

\* C2: for 0 <= g <= 100, add_grade(s, c, g) after a successful
\* enroll_student(s, c) returns True and the record of (s, c) has grade g;
\* for g < 0 or g > 100 it returns False, changes no grade and creates no
\* record.  (Grades are in tenths: 100 is 1000.)
C2_GradeAfterEnroll ==
    [][Calling("add_grade") =>
         LET s == lastCall'.student_id
             c == lastCall'.subject_id
             g == lastCall'.num[1]
         IN  /\ (0 <= g /\ g <= 1000 /\ origin[<<s, c>>] = "enroll_student")
                => (/\ ret' = TRUE
                    /\ RecordsOf(records', s, c) # {}
                    /\ \A i \in RecordsOf(records', s, c) :
                           records'[i].grade = Some(g))
             /\ (g < 0 \/ g > 1000)
                => (/\ ret' = FALSE
                    /\ records' = records)]_vars

\* add_grade with the grade 100.0 accepted on a record enroll_student made
C2_Witness ==
    /\ lastCall.op = "add_grade"
    /\ ret = TRUE
    /\ lastCall.num = Some(1000)
    /\ origin[<<lastCall.student_id, lastCall.subject_id>>] = "enroll_student"
    /\ TheRecord(records, lastCall.student_id, lastCall.subject_id).grade
           = Some(1000)

\* the pair has a record, with attendance and total_classes both absent
Fresh(list, student_id, subject_id) ==
    /\ RecordsOf(list, student_id, subject_id) # {}
    /\ TheRecord(list, student_id, subject_id).attendance = None
    /\ TheRecord(list, student_id, subject_id).total_classes = None

\* C3: on a record with attendance and total_classes both absent, two
\* consecutive mark_attendance calls with attended=True and no total_classes
\* both return True and leave attendance = 2 and total_classes = 2.  The
\* second call is the one made when the pair's only earlier successful call
\* is the first, and the record existed before that one.
C3_TwoAttendedMarks ==
    [][(/\ Calling("mark_attendance")
        /\ lastCall'.attended
        /\ lastCall'.total_classes = None)
       => (/\ (Fresh(records, CallPair[1], CallPair[2]) => ret' = TRUE)
           /\ ((/\ marks[CallPair] = <<MarkCall(TRUE, None)>>
                /\ origin[CallPair] # "mark_attendance")
               => (/\ ret' = TRUE
                   /\ TheRecord(records', CallPair[1], CallPair[2]).attendance
                          = Some(2)
                   /\ TheRecord(records', CallPair[1],
                                CallPair[2]).total_classes = Some(2))))]_vars

\* the second of two such calls has been made on an enrollment
C3_Witness ==
    /\ lastCall.op = "mark_attendance"
    /\ ret = TRUE
    /\ origin[<<lastCall.student_id, lastCall.subject_id>>] = "enroll_student"
    /\ marks[<<lastCall.student_id, lastCall.subject_id>>]
           = <<MarkCall(TRUE, None), MarkCall(TRUE, None)>>
    /\ TheRecord(records, lastCall.student_id, lastCall.subject_id).attendance
           = Some(2)

\* C4: on a record with attendance and total_classes both absent, one
\* mark_attendance call with attended=True and an explicit total_classes = t
\* yields attendance = 1 and total_classes = t, for every t.
C4_ExplicitTotalWins ==
    [][(/\ Calling("mark_attendance")
        /\ lastCall'.attended
        /\ lastCall'.total_classes # None
        /\ Fresh(records, CallPair[1], CallPair[2]))
       => (/\ ret' = TRUE
           /\ TheRecord(records', CallPair[1], CallPair[2]).attendance
                  = Some(1)
           /\ TheRecord(records', CallPair[1], CallPair[2]).total_classes
                  = lastCall'.total_classes)]_vars

\* the call made with the explicit total 0, below the attendance it leaves
C4_Witness ==
    /\ lastCall.op = "mark_attendance"
    /\ origin[<<lastCall.student_id, lastCall.subject_id>>] = "enroll_student"
    /\ marks[<<lastCall.student_id, lastCall.subject_id>>]
           = <<MarkCall(TRUE, Some(0))>>
    /\ TheRecord(records, lastCall.student_id, lastCall.subject_id).attendance
           = Some(1)
    /\ TheRecord(records, lastCall.student_id,
                 lastCall.subject_id).total_classes = Some(0)

\* C5 as stated: for an existing student s and subject c, enroll_student(s, c)
\* called twice returns True the first time and False the second time, and
\* exactly one record exists for (s, c) afterwards.  The second time is a call
\* that repeats the call just made, which returned True; the first time is
\* any other call.
C5_EnrollTwice ==
    [][(/\ Calling("enroll_student")
        /\ HasStudent(students, CallPair[1])
        /\ HasSubject(subjects, CallPair[2]))
       => (/\ ret' = ~(lastCall = lastCall' /\ ret)
           /\ Cardinality(RecordsOf(records', CallPair[1], CallPair[2])) = 1)
      ]_vars

\* C5 amended: for an existing student s and subject c with no record yet
\* for (s, c), the first enroll_student(s, c) returns True; a second call
\* right after it returns False; exactly one record exists for (s, c) after
\* either.
C5_EnrollTwiceNoRecord ==
    [][(/\ Calling("enroll_student")
        /\ HasStudent(students, CallPair[1])
        /\ HasSubject(subjects, CallPair[2]))
       => (/\ (RecordsOf(records, CallPair[1], CallPair[2]) = {}
               => (/\ ret' = TRUE
                   /\ Cardinality(RecordsOf(records', CallPair[1],
                                            CallPair[2])) = 1))
           /\ ((lastCall = lastCall' /\ ret)
               => (/\ ret' = FALSE
                   /\ records' = records
                   /\ Cardinality(RecordsOf(records', CallPair[1],
                                            CallPair[2])) = 1)))]_vars

\* enroll_student refused for a pair an earlier enroll_student enrolled
C5_Witness ==
    /\ lastCall.op = "enroll_student"
    /\ ret = FALSE
    /\ origin[<<lastCall.student_id, lastCall.subject_id>>] = "enroll_student"
    /\ Cardinality(RecordsOf(records, lastCall.student_id,
                             lastCall.subject_id)) = 1

\* C6: a subject added with add_subject(id, name, code, credits) is read
\* back from the file save_to_file wrote with the same subject_id, name, code
\* and credits.  (The texts of Spec hold no '|', line break or surrounding
\* whitespace.)
C6_SubjectRoundTrip ==
    subjects_file # None => Subject_load_from_file(subjects_file) = subjects

\* C7: the students are read back from the file save_to_file wrote, in the
\* same order, with the same student_id, name, email and age, the age being
\* absent or any integer.  (The texts of SpecAdd hold no '|', line break or
\* surrounding whitespace.)
C7_StudentRoundTrip ==
    students_file # None => Student_load_from_file(students_file) = students

\* a text without '|', line breaks or surrounding whitespace
PlainText(t) ==
    /\ Strip(t) = t
    /\ \A i \in 1..Len(t) : t[i] # Bar /\ t[i] # NL

\* the ids of a record leave its line one line of five columns that is not
\* taken for a comment
PlainIds(record) ==
    /\ PlainText(record.student_id)
    /\ PlainText(record.subject_id)
    /\ (record.student_id = <<>> \/ Head(record.student_id) # "#")

\* C8 as stated: every list of records is read back from the file
\* save_to_file wrote, in the same order, with the same student_id,
\* subject_id, grade, attendance and total_classes.
C8_RecordRoundTrip ==
    (rt.pc = "done" /\ rt.kind = "record") => rt.output = rt.input

\* C8 amended: so is every list of records whose student_id and subject_id
\* hold no '|', no line break and no surrounding whitespace and whose
\* student_id does not start with '#', records whose attendance or
\* total_classes is 0 and records whose optional fields are absent included.
C8_RecordRoundTripPlainIds ==
    (/\ rt.pc = "done"
     /\ rt.kind = "record"
     /\ \A i \in 1..Len(rt.input) : PlainIds(rt.input[i]))
    => rt.output = rt.input

\* two records read back: one with attendance 0 and total_classes 0, one
\* with every optional field absent
C8_Witness ==
    /\ rt.pc = "done"
    /\ rt.kind = "record"
    /\ Len(rt.input) = 2
    /\ PlainIds(rt.input[1])
    /\ PlainIds(rt.input[2])
    /\ rt.input[1].attendance = Some(0)
    /\ rt.input[1].total_classes = Some(0)
    /\ rt.input[2].grade = None
    /\ rt.input[2].attendance = None
    /\ rt.input[2].total_classes = None
    /\ rt.output = rt.input

\* the student of a student_id
TheStudent(list, student_id) ==
    list[CHOOSE i \in 1..Len(list) : list[i].student_id = student_id]

\* C9: get_student_report(id) returns None when no student has that id; for
\* a student with no records it returns that student and an empty 'records'
\* list; in both cases no collection changes.
C9_ReportAbsentOrEmpty ==
    [][Calling("get_student_report")
       => (/\ (~HasStudent(students, lastCall'.student_id)
               => report' = None)
           /\ ((/\ HasStudent(students, lastCall'.student_id)
                /\ \A i \in 1..Len(records) :
                       records[i].student_id # lastCall'.student_id)
               => (/\ report' # None
                   /\ report'[1].student
                          = TheStudent(students, lastCall'.student_id)
                   /\ report'[1].records = <<>>))
           /\ students' = students
           /\ subjects' = subjects
           /\ records' = records)]_vars

\* the report of a student without records, while another student has one
C9_Witness ==
    /\ lastCall.op = "get_student_report"
    /\ report # None
    /\ report[1].records = <<>>
    /\ report[1].student.student_id = lastCall.student_id
    /\ records # <<>>

\* C10: no two students share a student_id, no two subjects share a
\* subject_id, no two records share a (student_id, subject_id) pair.
C10_UniqueKeys ==
    /\ \A i, j \in 1..Len(students) :
           students[i].student_id = students[j].student_id => i = j
    /\ \A i, j \in 1..Len(subjects) :
           subjects[i].subject_id = subjects[j].subject_id => i = j
    /\ \A i, j \in 1..Len(records) :
           (/\ records[i].student_id = records[j].student_id
            /\ records[i].subject_id = records[j].subject_id) => i = j

\* two students, each with a record for the one subject
C10_Witness ==
    /\ Len(students) = 2
    /\ Len(subjects) = 1
    /\ Len(records) = 2

-----------------------------------------------------------------------------
\* C11: in every state reachable from an empty store, every record's grade
\* is either absent or satisfies 0 <= grade <= 100.  (Grades are in tenths.)
C11_GradeInRange ==
    \A i \in 1..Len(records) :
        \/ records[i].grade = None
        \/ /\ FloatLe(MinGrade * 10, records[i].grade[1])
           /\ FloatLe(records[i].grade[1], MaxGrade * 10)

\* the record Record(student_id, subject_id) with every optional field absent
IsBareRecord(r, student_id, subject_id) ==
    /\ r.student_id = student_id
    /\ r.subject_id = subject_id
    /\ r.grade = None
    /\ r.attendance = None
    /\ r.total_classes = None

\* list2 is list1 with exactly one element appended
OneAppended(list1, list2) ==
    /\ Len(list2) = Len(list1) + 1
    /\ SubSeq(list2, 1, Len(list1)) = list1

\* C12: enroll_student(s, c) returns False and changes no collection when
\* student s or subject c does not exist; when both exist and (s, c) has no
\* record it returns True and appends exactly one record for (s, c) whose
\* grade, attendance and total_classes are all absent.
C12_EnrollCases ==
    [][Calling("enroll_student") =>
         (/\ ((\/ ~HasStudent(students, CallPair[1])
               \/ ~HasSubject(subjects, CallPair[2]))
              => (/\ ret' = FALSE
                  /\ students' = students
                  /\ subjects' = subjects
                  /\ records' = records))
          /\ ((/\ HasStudent(students, CallPair[1])
               /\ HasSubject(subjects, CallPair[2])
               /\ RecordsOf(records, CallPair[1], CallPair[2]) = {})
              => (/\ ret' = TRUE
                  /\ students' = students
                  /\ subjects' = subjects
                  /\ OneAppended(records, records')
                  /\ IsBareRecord(records'[Len(records')],
                                  CallPair[1], CallPair[2]))))]_vars

\* enroll_student rejected for a student that exists and a subject that does
\* not, in a store that holds a record
C12_Witness ==
    /\ lastCall.op = "enroll_student"
    /\ ret = FALSE
    /\ HasStudent(students, lastCall.student_id)
    /\ ~HasSubject(subjects, lastCall.subject_id)
    /\ records # <<>>

\* C13: mark_attendance(s, c, attended, total) returns False and changes no
\* record whenever student s or subject c does not exist (the check is made
\* only when (s, c) has no record, and a record exists only for a student
\* and a subject that exist); when both exist and (s, c) has no record, it
\* returns True and creates one.
C13_MarkMissingRejected ==
    [][Calling("mark_attendance") =>
         (/\ ((\/ ~HasStudent(students, CallPair[1])
               \/ ~HasSubject(subjects, CallPair[2]))
              => (/\ ret' = FALSE
                  /\ records' = records))
          /\ ((/\ HasStudent(students, CallPair[1])
               /\ HasSubject(subjects, CallPair[2])
               /\ RecordsOf(records, CallPair[1], CallPair[2]) = {})
              => (/\ ret' = TRUE
                  /\ OneAppended(records, records')
                  /\ records'[Len(records')].student_id = CallPair[1]
                  /\ records'[Len(records')].subject_id = CallPair[2])))]_vars

\* mark_attendance rejected for a student that exists and a subject that
\* does not, in a store that holds a record of that student
C13_Witness ==
    /\ lastCall.op = "mark_attendance"
    /\ ret = FALSE
    /\ HasStudent(students, lastCall.student_id)
    /\ ~HasSubject(subjects, lastCall.subject_id)
    /\ \E i \in 1..Len(records) :
           records[i].student_id = lastCall.student_id

\* the calls that change a collection
MutatingOps ==
    {"add_student", "add_subject", "enroll_student", "add_grade",
     "mark_attendance"}

\* C14: after every mutating call (add_student, add_subject, enroll_student,
\* add_grade, mark_attendance) that returns True, each of students.txt,
\* subjects.txt and records.txt holds what save_to_file writes for the
\* collection in memory after the call, whichever collection the call
\* changed.
C14_SavedAfterMutation ==
    [][(lastCall'.op \in MutatingOps /\ ret' = TRUE)
       => (/\ students_file' = Student_save_to_file(students')
           /\ subjects_file' = Subject_save_to_file(subjects')
           /\ records_file' = Record_save_to_file(records'))]_vars

\* add_grade has overwritten a grade, after which all three files hold the
\* collections in memory, the changed records among them
C14_Witness ==
    /\ lastCall.op = "add_grade"
    /\ ret = TRUE
    /\ origin[<<lastCall.student_id, lastCall.subject_id>>] # "add_grade"
    /\ students_file = Student_save_to_file(students)
    /\ subjects_file = Subject_save_to_file(subjects)
    /\ records_file = Record_save_to_file(records)
    /\ \E i \in 1..Len(records) : records[i].grade = lastCall.num

\* every element of list1 is an element of list2, unchanged
Kept(list1, list2) ==
    \A i \in 1..Len(list1) : \E j \in 1..Len(list2) : list2[j] = list1[i]

\* C15: across any sequence of manager operations a student or subject that
\* exists keeps existing with unchanged field values, a record that exists
\* for a pair (s, c) is never removed, and none of the three collections
\* shrinks.  Stated of every step, hence of every later state.
C15_NothingRemoved ==
    [][/\ Kept(students, students')
       /\ Kept(subjects, subjects')
       /\ \A i \in 1..Len(records) :
              RecordsOf(records', records[i].student_id,
                        records[i].subject_id) # {}
       /\ Len(students') >= Len(students)
       /\ Len(subjects') >= Len(subjects)
       /\ Len(records') >= Len(records)]_vars

\* a student, a subject and a record that add_grade has updated are still in
\* the store after an add_student for the stored id with another name has
\* been rejected
C15_Witness ==
    /\ students # <<>>
    /\ subjects # <<>>
    /\ \E i \in 1..Len(records) :
           /\ records[i].grade # None
           /\ origin[<<records[i].student_id, records[i].subject_id>>]
                  = "mark_attendance"
    /\ lastCall.op = "add_student"
    /\ ret = FALSE
    /\ \E i \in 1..Len(students) :
           /\ students[i].student_id = lastCall.student_id
           /\ students[i].name # lastCall.name

\* the step is a successful mark_attendance call
Marking == Calling("mark_attendance") /\ ret' = TRUE

\* the record of the pair of the step's call, before and after the step
RecordBefore == TheRecord(records, CallPair[1], CallPair[2])

RecordAfter == TheRecord(records', CallPair[1], CallPair[2])

\* C16: after any successful mark_attendance call that omits total_classes
\* the affected record has total_classes >= attendance, whatever its
\* attendance and total_classes were before the call.
C16_OmittedTotalCoversAttendance ==
    [][(Marking /\ lastCall'.total_classes = None)
       => (/\ RecordAfter.attendance # None
           /\ RecordAfter.total_classes # None
           /\ RecordAfter.total_classes[1] >= RecordAfter.attendance[1])]_vars

\* a call without total_classes made on a record that an explicit total of 0
\* had left with attendance 1 above total_classes 0
C16_Witness ==
    /\ lastCall.op = "mark_attendance"
    /\ ret = TRUE
    /\ lastCall.total_classes = None
    /\ \E a \in BOOLEAN :
           marks[<<lastCall.student_id, lastCall.subject_id>>]
               = <<MarkCall(TRUE, Some(0)), MarkCall(a, None)>>
    /\ TheRecord(records, lastCall.student_id, lastCall.subject_id)
           .total_classes # Some(0)

\* C17: attendance <= total_classes is not an invariant: a mark_attendance
\* call with an explicit total_classes smaller than the attendance the
\* record already has returns True and leaves total_classes equal to the
\* supplied value and attendance greater than total_classes.
C17_ExplicitTotalBelowAttendance ==
    [][(/\ Calling("mark_attendance")
        /\ lastCall'.total_classes # None
        /\ RecordsOf(records, CallPair[1], CallPair[2]) # {}
        /\ RecordBefore.attendance # None
        /\ lastCall'.total_classes[1] < RecordBefore.attendance[1])
       => (/\ ret' = TRUE
           /\ RecordAfter.total_classes = lastCall'.total_classes
           /\ RecordAfter.attendance # None
           /\ RecordAfter.attendance[1] >= RecordBefore.attendance[1]
           /\ RecordAfter.attendance[1] > RecordAfter.total_classes[1])]_vars

\* a record with attendance 2 and total_classes 2 that a call with the
\* explicit total 0 has left with attendance above total_classes
C17_Witness ==
    /\ lastCall.op = "mark_attendance"
    /\ ret = TRUE
    /\ lastCall.total_classes = Some(0)
    /\ \E a \in BOOLEAN :
           marks[<<lastCall.student_id, lastCall.subject_id>>]
               = <<MarkCall(TRUE, None), MarkCall(TRUE, None),
                   MarkCall(a, Some(0))>>
    /\ TheRecord(records, lastCall.student_id, lastCall.subject_id)
           .attendance[1]
         > TheRecord(records, lastCall.student_id, lastCall.subject_id)
               .total_classes[1]

\* the successful mark_attendance calls of the pair all omitted total_classes
AllOmitted(p) == \A k \in 1..Len(marks[p]) : marks[p][k].total_classes = None

\* C18: when the caller omits total_classes on every call, starting from a
\* fresh enrollment (a record with attendance and total_classes absent),
\* after n successful mark_attendance calls for the pair, with any mix of
\* attended=True and attended=False, the record's total_classes equals n.
C18_TotalCountsCalls ==
    \A p \in Pairs :
        (/\ origin[p] \in {"enroll_student", "add_grade"}
         /\ marks[p] # <<>>
         /\ AllOmitted(p))
        => TheRecord(records, p[1], p[2]).total_classes = Some(Len(marks[p]))

\* the same count where every call was made with attended=True
C18_TotalCountsAttendedCalls ==
    \A p \in Pairs :
        (/\ origin[p] \in {"enroll_student", "add_grade"}
         /\ marks[p] # <<>>
         /\ AllOmitted(p)
         /\ \A k \in 1..Len(marks[p]) : marks[p][k].attended)
        => TheRecord(records, p[1], p[2]).total_classes = Some(Len(marks[p]))

\* the number of the pair's successful calls made with attended=True
AttendedCalls(log) == Cardinality({k \in 1..Len(log) : log[k].attended})

\* C19: starting from a record with attendance absent, after any sequence of
\* successful mark_attendance calls for the pair, with any total_classes,
\* attendance equals the number of those calls made with attended=True: a
\* call with attended=True raises attendance by exactly 1 (from absent to
\* 1), a call with attended=False leaves a set attendance unchanged and
\* sets an absent one to 0.
C19_AttendanceCountsAttended ==
    [][Marking
       => (/\ RecordAfter.attendance
                 = Some(AttendedCalls(marks'[CallPair]))
           /\ (RecordsOf(records, CallPair[1], CallPair[2]) # {}
               => (/\ (lastCall'.attended /\ RecordBefore.attendance # None)
                      => RecordAfter.attendance
                             = Some(RecordBefore.attendance[1] + 1)
                   /\ (lastCall'.attended /\ RecordBefore.attendance = None)
                      => RecordAfter.attendance = Some(1)
                   /\ (~lastCall'.attended
                          /\ RecordBefore.attendance # None)
                      => RecordAfter.attendance = RecordBefore.attendance
                   /\ (~lastCall'.attended
                          /\ RecordBefore.attendance = None)
                      => RecordAfter.attendance = Some(0))))]_vars

\* attended, attended with an explicit total, then absent: attendance is 2
C19_Witness ==
    /\ lastCall.op = "mark_attendance"
    /\ ret = TRUE
    /\ ~lastCall.attended
    /\ \E t \in Totals :
           marks[<<lastCall.student_id, lastCall.subject_id>>]
               = <<MarkCall(TRUE, None), MarkCall(TRUE, Some(0)),
                   MarkCall(FALSE, t)>>
    /\ TheRecord(records, lastCall.student_id, lastCall.subject_id)
           .attendance = Some(2)

\* C20: add_grade(s, c, g) with 0 <= g <= 100 and no record for (s, c)
\* returns False and creates nothing unless student s and subject c both
\* exist; when both exist it creates exactly one record for (s, c) with
\* grade g and attendance and total_classes absent; when (s, c) has a record
\* it overwrites that record's grade with g and creates no second record.
C20_AddGradeCases ==
    [][(/\ Calling("add_grade")
        /\ FloatLe(MinGrade * 10, lastCall'.num[1])
        /\ FloatLe(lastCall'.num[1], MaxGrade * 10))
       => (/\ ((/\ RecordsOf(records, CallPair[1], CallPair[2]) = {}
                /\ \/ ~HasStudent(students, CallPair[1])
                   \/ ~HasSubject(subjects, CallPair[2]))
               => (/\ ret' = FALSE
                   /\ records' = records))
           /\ ((/\ RecordsOf(records, CallPair[1], CallPair[2]) = {}
                /\ HasStudent(students, CallPair[1])
                /\ HasSubject(subjects, CallPair[2]))
               => (/\ ret' = TRUE
                   /\ OneAppended(records, records')
                   /\ records'[Len(records')]
                          = [student_id |-> CallPair[1],
                             subject_id |-> CallPair[2],
                             grade |-> lastCall'.num,
                             attendance |-> None,
                             total_classes |-> None]))
           /\ (RecordsOf(records, CallPair[1], CallPair[2]) # {}
               => (/\ ret' = TRUE
                   /\ Len(records') = Len(records)
                   /\ Cardinality(RecordsOf(records', CallPair[1],
                                            CallPair[2])) = 1
                   /\ RecordAfter.grade = lastCall'.num
                   /\ RecordAfter.attendance = RecordBefore.attendance
                   /\ RecordAfter.total_classes
                          = RecordBefore.total_classes)))]_vars

\* add_grade has set the grade 100.0 on a record that enroll_student made
\* and mark_attendance updated, the pair still having one record
C20_Witness ==
    /\ lastCall.op = "add_grade"
    /\ ret = TRUE
    /\ lastCall.num = Some(1000)
    /\ origin[<<lastCall.student_id, lastCall.subject_id>>]
           = "enroll_student"
    /\ marks[<<lastCall.student_id, lastCall.subject_id>>] # <<>>
    /\ Len(records) = 1
    /\ records[1].grade = Some(1000)
    /\ records[1].attendance # None

\* the positions of the records of a student
OwnRecords(list, student_id) ==
    {i \in 1..Len(list) : list[i].student_id = student_id}

\* the subject a record's subject_id names: the first with that id, if any
SubjectOf(record) ==
    IF HasSubject(subjects, record.subject_id)
    THEN Some(subjects[CHOOSE i \in 1..Len(subjects) :
                  /\ subjects[i].subject_id = record.subject_id
                  /\ \A j \in 1..(i - 1) :
                         subjects[j].subject_id # record.subject_id])
    ELSE None

\* C21: for an existing student s, get_student_report(s) returns a 'records'
\* list with exactly one entry for each record whose student_id is s, in the
\* order of the records list (the order of creation), each entry pairing the
\* record with the subject of its subject_id, or None when there is no such
\* subject, and with no entry for another student's record.
C21_ReportEntries ==
    (lastCall.op = "get_student_report" /\ report # None)
    => (/\ Len(report[1].records)
              = Cardinality(OwnRecords(records, lastCall.student_id))
        /\ \E f \in [1..Len(report[1].records)
                       -> OwnRecords(records, lastCall.student_id)] :
             /\ \A k, l \in 1..Len(report[1].records) :
                    k < l => f[k] < f[l]
             /\ \A k \in 1..Len(report[1].records) :
                    report[1].records[k].record = records[f[k]]
        /\ \A k \in 1..Len(report[1].records) :
               report[1].records[k].subject
                   = SubjectOf(report[1].records[k].record))

\* the report of a student with two records, the first paired with its
\* subject and the second with None, while another student has a record
C21_Witness ==
    /\ lastCall.op = "get_student_report"
    /\ report # None
    /\ Len(report[1].records) = 2
    /\ report[1].records[1].subject # None
    /\ report[1].records[1].subject[1].subject_id
           = report[1].records[1].record.subject_id
    /\ report[1].records[2].subject = None
    /\ Len(records) = 3
    /\ records[2].student_id # lastCall.student_id

\* C22: with save_all as three separate writes (students, then subjects,
\* then records), a call that completes leaves the three files equal to the
\* collections in memory after the call; a crash between the writes can
\* leave them in a combination that is neither the files as they were before
\* the call nor the files as the completed call leaves them (C22_Witness).
C22_CompletedCallSaved ==
    (rt.pc = "idle" /\ lastCall.op \in MutatingOps) => Files = FilesOfMemory

\* after a crash between the writes the files are neither those before the
\* call nor those of the completed call
C22_Witness ==
    /\ rt.pc = "crashed"
    /\ Files # rt.input
    /\ Files # FilesOfMemory

\* a crash between the writes of a call made after another call has
\* completed leaves the files either as before the call or as the completed
\* call would leave them: each call changes one collection
C22_CrashAfterCompletedCall ==
    (rt.pc = "crashed" /\ ncalls > 0)
    => (Files = rt.input \/ Files = FilesOfMemory)

\* the position of the first bad line, or one past the last line
FirstBad(lines) ==
    IF \E i \in 1..Len(lines) : lines[i].class = "bad"
    THEN CHOOSE i \in 1..Len(lines) :
             /\ lines[i].class = "bad"
             /\ \A j \in 1..(i - 1) : lines[j].class # "bad"
    ELSE Len(lines) + 1

\* the valid lines before the first bad line
ValidBeforeBad(lines) ==
    SelectSeq(SubSeq(lines, 1, FirstBad(lines) - 1),
              LAMBDA l : l.class = "valid")

\* C23: when a data file holds a line whose optional numeric field is
\* non-empty and not numeric, load_from_file returns exactly the entities of
\* the valid lines before that line, in order, and none of any later line;
\* blank lines, lines starting with '#' and lines with too few columns are
\* skipped without stopping the load.
C23_LoadStopsAtBadLine ==
    rt.pc = "done"
    => rt.output = [i \in 1..Len(ValidBeforeBad(rt.input)) |->
                       ValidBeforeBad(rt.input)[i].entity]

\* records.txt with a valid line, a line with a bad column and another valid
\* line has been loaded: the first line's record alone is returned
C23_Witness ==
    /\ rt.pc = "done"
    /\ rt.kind = "record"
    /\ Len(rt.input) = 3
    /\ rt.input[1].class = "valid"
    /\ rt.input[2].class = "bad"
    /\ rt.input[3].class = "valid"
    /\ rt.output = <<rt.input[1].entity>>

\* a file with a skipped line between two valid lines has been loaded: both
\* entities are returned
C23_SkippedLineWitness ==
    /\ rt.pc = "done"
    /\ Len(rt.input) = 3
    /\ rt.input[1].class = "valid"
    /\ rt.input[2].class = "skipped"
    /\ rt.input[3].class = "valid"
    /\ rt.output = <<rt.input[1].entity, rt.input[3].entity>>

\* C24: in every state reachable from an empty store, every record's
\* student_id is the id of an existing student and its subject_id the id of
\* an existing subject, so get_student_report never pairs a record with a
\* None subject.
C24_ReferentialIntegrity ==
    /\ \A i \in 1..Len(records) :
           /\ HasStudent(students, records[i].student_id)
           /\ HasSubject(subjects, records[i].subject_id)
    /\ (lastCall.op = "get_student_report" /\ report # None)
       => \A k \in 1..Len(report[1].records) :
              /\ report[1].records[k].subject # None
              /\ report[1].records[k].subject[1].subject_id
                     = report[1].records[k].record.subject_id

\* a report listing a record that add_grade created, paired with its subject
C24_Witness ==
    /\ lastCall.op = "get_student_report"
    /\ report # None
    /\ report[1].records # <<>>
    /\ report[1].records[1].subject # None
    /\ origin[<<report[1].records[1].record.student_id,
                report[1].records[1].record.subject_id>>] = "add_grade"

\* the pair of a record
PairOf(record) == <<record.student_id, record.subject_id>>

\* C25: a successful add_grade(s, c, g) leaves the attendance and the
\* total_classes of the (s, c) record unchanged; a successful
\* mark_attendance(s, c, ...) leaves its grade unchanged; both leave the
\* record of every other pair, every student and every subject unchanged,
\* and add no record of another pair.
C25_Frame ==
    [][((Calling("add_grade") \/ Calling("mark_attendance")) /\ ret' = TRUE)
       => (/\ students' = students
           /\ subjects' = subjects
           /\ Len(records') >= Len(records)
           /\ \A i \in 1..Len(records) :
                  /\ PairOf(records'[i]) = PairOf(records[i])
                  /\ (PairOf(records[i]) # CallPair
                      => records'[i] = records[i])
           /\ \A i \in (Len(records) + 1)..Len(records') :
                  PairOf(records'[i]) = CallPair
           /\ ((Calling("add_grade")
                /\ RecordsOf(records, CallPair[1], CallPair[2]) # {})
               => (/\ RecordAfter.attendance = RecordBefore.attendance
                   /\ RecordAfter.total_classes = RecordBefore.total_classes))
           /\ ((Calling("mark_attendance")
                /\ RecordsOf(records, CallPair[1], CallPair[2]) # {})
               => RecordAfter.grade = RecordBefore.grade))]_vars

\* mark_attendance has succeeded on a graded record while other pairs have
\* records too
C25_Witness ==
    /\ lastCall.op = "mark_attendance"
    /\ ret = TRUE
    /\ TheRecord(records, lastCall.student_id, lastCall.subject_id).grade
           # None
    /\ TheRecord(records, lastCall.student_id, lastCall.subject_id).attendance
           # None
    /\ \E i \in 1..Len(records) :
           PairOf(records[i]) # <<lastCall.student_id, lastCall.subject_id>>

\* add_grade has succeeded on a record that holds attendance while other
\* pairs have records too
C25_GradeWitness ==
    /\ lastCall.op = "add_grade"
    /\ ret = TRUE
    /\ TheRecord(records, lastCall.student_id, lastCall.subject_id).attendance
           = Some(1)
    /\ TheRecord(records, lastCall.student_id, lastCall.subject_id).grade
           # None
    /\ \E i \in 1..Len(records) :
           PairOf(records[i]) # <<lastCall.student_id, lastCall.subject_id>>

\* C26: once add_grade or mark_attendance has created the record of a pair
\* (s, c), enroll_student(s, c) returns False and leaves the grade, the
\* attendance and the total_classes of the record, and every other record,
\* as they were.
C26_EnrollAfterImplicitRecord ==
    [][(/\ Calling("enroll_student")
        /\ origin[CallPair] \in {"add_grade", "mark_attendance"})
       => (/\ ret' = FALSE
           /\ records' = records
           /\ Cardinality(RecordsOf(records', CallPair[1], CallPair[2])) = 1
           /\ RecordAfter.grade = RecordBefore.grade
           /\ RecordAfter.attendance = RecordBefore.attendance
           /\ RecordAfter.total_classes = RecordBefore.total_classes)]_vars

\* enroll_student refused for a pair whose record add_grade created
C26_Witness ==
    /\ lastCall.op = "enroll_student"
    /\ ret = FALSE
    /\ origin[<<lastCall.student_id, lastCall.subject_id>>] = "add_grade"
    /\ TheRecord(records, lastCall.student_id, lastCall.subject_id).grade
           # None
    /\ Cardinality(RecordsOf(records, lastCall.student_id,
                             lastCall.subject_id)) = 1

\* enroll_student refused for a pair whose record mark_attendance created
C26_MarkWitness ==
    /\ lastCall.op = "enroll_student"
    /\ ret = FALSE
    /\ origin[<<lastCall.student_id, lastCall.subject_id>>]
           = "mark_attendance"
    /\ TheRecord(records, lastCall.student_id, lastCall.subject_id).attendance
           # None

====
